---- MODULE Spec2Model ----
(***************************************************************************)
(* GrayCodeCalibration::getCameraProjectionPairs                           *)
(* (src/ProjectionCalibration/GrayCodeCalibration.cpp, lines 66-139) as a  *)
(* state machine: the horizontal bit-plane passes, the toggle reset, the   *)
(* vertical bit-plane passes, the error histogram, the tolerance walk and  *)
(* the row-major filter.  One invocation runs from Init to pc = "done".    *)
(* cv::Mat::forEach runs its callback once per pixel in no fixed order, so *)
(* each callback invocation is one step.                                   *)
(***************************************************************************)
EXTENDS Integers, Sequences, FiniteSets

\* ------------------------------------------------------------------ bounds
MaxProjWidth == 9
MaxProjHeight == 9
MaxCameraWidth == 2
MaxCameraHeight == 2
\* most pixel samples one invocation decodes: all_pixels * frames.size()
MaxSamples == 8
MaxDiff == 2
MaxThreshold == 2

\* ------------------------------------------------------- program constants
Uint8 == 256
Uint16 == 65536
ErrorSlots == 5

\* ----------------------------------------------------------------- helpers
RECURSIVE Pow2(_)
Pow2(n) == IF n = 0 THEN 1 ELSE 2 * Pow2(n - 1)

\* ceil(log(double(w)) / log(2.0)) for w >= 1: the least n with 2^n >= w
RECURSIVE CeilLog2From(_, _)
CeilLog2From(w, n) == IF Pow2(n) >= w THEN n ELSE CeilLog2From(w, n + 1)

CeilLog2(w) == CeilLog2From(w, 0)

ToUint8(n) == n % Uint8

ToUint16(n) == n % Uint16

\* v >> 1 on an int (arithmetic shift: floor division)
ShiftRight1(v) == v \div 2

\* v <<= 1 on a uint16_t
ShiftLeft1(v) == ToUint16(2 * v)

VARIABLES
    projectionSize,   \* cv::Size: [width, height]
    camera_width, camera_height,
    mask,             \* pos -> BOOLEAN
    threshold, minPointCount,
    frameCount,       \* frames.size()
    rendered,         \* TRUE: the frames are a noise-free Gray-code rendering of truth
    truth,            \* pos -> <<x, y>>, the coordinate rendered at each pixel
    i,                \* the bit-plane loops' frame index
    diff,             \* pos -> int16, the cv::Mat diff
    todo,             \* pixels the running forEach has not visited yet
    coordinates,      \* 0..2*all_pixels-1 -> uint16
    temp,             \* pos -> BOOLEAN
    error,            \* pos -> uint16
    start,            \* the buffers as they were when the running pass began
    error_counts,     \* 0..4 -> int
    allowed_error,
    capacity,         \* slots reserved for cameraPoints / projectionPoints
    y, x,             \* the filter's scan position
    scanned,          \* offset of current_error (and half that of current_point)
    cameraPoints, projectionPoints,
    pc

vars == <<projectionSize, camera_width, camera_height, mask, threshold,
          minPointCount, frameCount, rendered, truth, i, diff, todo,
          coordinates, temp, error, start, error_counts, allowed_error,
          capacity, y, x, scanned, cameraPoints, projectionPoints, pc>>

inputs == <<projectionSize, camera_width, camera_height, mask, threshold,
            minPointCount, frameCount, rendered, truth>>

all_pixels == camera_width * camera_height

Pixels == 0 .. all_pixels - 1

column_frame_count == ToUint16(CeilLog2(projectionSize.width) * 2)

row_bits == (frameCount - column_frame_count) \div 2

\* sample values of a 16-bit signed difference: clear and faint, of either sign
PixelDiffs == {0 - MaxDiff, 0 - 1, 0, MaxDiff}

\* ------------------------------------------------------- Gray-code render
Bit(v, j) == (v \div Pow2(j)) % 2

\* bit j of the standard reflected Gray code v XOR (v >> 1)
GrayBit(v, j) == (Bit(v, j) + Bit(v, j + 1)) % 2

\* the Gray bit shown by the k-th bit-plane (k = 0 is the most significant)
PlaneBit(v, k, nbits) == GrayBit(v, nbits - 1 - k)

\* the coordinate and bit-plane index a frame pair i encodes
FrameBit(p, idx) ==
    IF idx < column_frame_count
    THEN PlaneBit(truth[p][1], idx \div 2, column_frame_count \div 2)
    ELSE PlaneBit(truth[p][2], (idx - column_frame_count) \div 2, row_bits)

NoiseFree(d) == d >= threshold \/ d <= 0 - threshold

\* frames[idx] - frames[idx + 1] at the unmasked pixels
FrameDiffs(idx) ==
    IF rendered
    THEN {d \in [Pixels -> PixelDiffs] :
            \A p \in Pixels : NoiseFree(d[p]) /\ ((d[p] >= 0) <=> (FrameBit(p, idx) = 1))}
    ELSE [Pixels -> PixelDiffs]

\* cv::subtract(frames[i], frames[i + 1], diff, mask, CV_16S)
Subtract(d) == [p \in Pixels |-> IF mask[p] THEN d[p] ELSE diff[p]]

\* ------------------------------------------------------------ bit weights
ColumnError(idx) == ToUint8(ShiftRight1(column_frame_count - idx))

RowError(idx) == ToUint16(ShiftRight1(ToUint16(frameCount) - column_frame_count - idx))

\* --------------------------------------------------------- forEach lambda
\* the toggle without the parity chain: the Gray bit taken as the binary bit
NewTempPlain(t, pixel) == pixel >= 0

NewTemp(t, pixel) == t # (pixel >= 0)

\* the error update without the "only if worse" test
NewErrorOverwrite(e, pixel, current_error) ==
    IF pixel > 0 - threshold /\ pixel < threshold THEN current_error ELSE e

NewError(e, pixel, current_error) ==
    IF pixel > 0 - threshold /\ pixel < threshold /\ current_error > e
    THEN current_error ELSE e

NewCoordinate(c, t) == IF t THEN ToUint16(ShiftLeft1(c) + 1) ELSE ShiftLeft1(c)

Snapshot == [coordinates |-> coordinates, temp |-> temp, error |-> error]

\* ---------------------------------------------------------------- initial
FreshBuffers ==
    /\ i = 0
    /\ diff = [p \in Pixels |-> 0]
    /\ todo = {}
    /\ coordinates = [k \in 0 .. 2 * all_pixels - 1 |-> 0]
    /\ temp = [p \in Pixels |-> FALSE]
    /\ error = [p \in Pixels |-> 0]
    /\ start = Snapshot
    /\ error_counts = [k \in 0 .. ErrorSlots - 1 |-> 0]
    /\ allowed_error = 0
    /\ capacity = 0
    /\ y = 0
    /\ x = 0
    /\ scanned = 0
    /\ cameraPoints = << >>
    /\ projectionPoints = << >>
    /\ pc = "columns"

Arguments ==
    /\ projectionSize \in [width : 1 .. MaxProjWidth, height : 1 .. MaxProjHeight]
    /\ camera_width \in 1 .. MaxCameraWidth
    /\ camera_height \in 1 .. MaxCameraHeight
    /\ mask \in [Pixels -> BOOLEAN]
    /\ threshold \in 0 .. MaxThreshold
    /\ minPointCount \in 0 .. all_pixels + 1
    /\ frameCount = column_frame_count + 2 * CeilLog2(projectionSize.height)
    /\ frameCount >= 2
    /\ all_pixels * frameCount <= MaxSamples

Init ==
    /\ Arguments
    /\ rendered = FALSE
    /\ truth = [p \in Pixels |-> <<0, 0>>]
    /\ FreshBuffers

InitRendered ==
    /\ Arguments
    /\ rendered = TRUE
    /\ truth \in [Pixels -> (0 .. projectionSize.width - 1) \X (0 .. projectionSize.height - 1)]
    /\ FreshBuffers

\* ------------------------------------------------------- horizontal passes
\* lines 77-79: loop test, current_error, cv::subtract
ColumnSubtract ==
    /\ pc = "columns"
    /\ i < column_frame_count
    /\ \E d \in FrameDiffs(i) : diff' = Subtract(d)
    /\ todo' = Pixels
    /\ start' = Snapshot
    /\ pc' = "columnPass"
    /\ UNCHANGED <<inputs, i, coordinates, temp, error, error_counts, allowed_error,
                   capacity, y, x, scanned, cameraPoints, projectionPoints>>

\* the callback reading the toggle of the next pixel instead of its own
ColumnPixelShared(pos) ==
    /\ pc = "columnPass"
    /\ pos \in todo
    /\ LET t == NewTemp(temp[(pos + 1) % all_pixels], diff[pos])
       IN /\ temp' = [temp EXCEPT ![pos] = t]
          /\ error' = [error EXCEPT ![pos] = NewError(@, diff[pos], ColumnError(i))]
          /\ coordinates' = [coordinates EXCEPT ![2 * pos] = NewCoordinate(@, t)]
    /\ todo' = todo \ {pos}
    /\ UNCHANGED <<inputs, i, diff, start, error_counts, allowed_error,
                   capacity, y, x, scanned, cameraPoints, projectionPoints, pc>>

\* lines 80-88: one invocation of the callback, at pixel pos
ColumnPixel(pos) ==
    /\ pc = "columnPass"
    /\ pos \in todo
    /\ LET t == NewTemp(temp[pos], diff[pos])
       IN /\ temp' = [temp EXCEPT ![pos] = t]
          /\ error' = [error EXCEPT ![pos] = NewError(@, diff[pos], ColumnError(i))]
          /\ coordinates' = [coordinates EXCEPT ![2 * pos] = NewCoordinate(@, t)]
    /\ todo' = todo \ {pos}
    /\ UNCHANGED <<inputs, i, diff, start, error_counts, allowed_error,
                   capacity, y, x, scanned, cameraPoints, projectionPoints, pc>>

\* line 77: forEach has returned; i += 2
ColumnAdvance ==
    /\ pc = "columnPass"
    /\ todo = {}
    /\ i' = i + 2
    /\ start' = Snapshot
    /\ pc' = "columns"
    /\ UNCHANGED <<inputs, diff, todo, coordinates, temp, error, error_counts,
                   allowed_error, capacity, y, x, scanned, cameraPoints,
                   projectionPoints>>

\* line 90: memset(temp, 0, ...), and line 92's loop initialisation
ResetToggle ==
    /\ pc = "columns"
    /\ ~(i < column_frame_count)
    /\ temp' = [p \in Pixels |-> FALSE]
    /\ i' = column_frame_count
    /\ start' = [Snapshot EXCEPT !.temp = temp']
    /\ pc' = "rows"
    /\ UNCHANGED <<inputs, diff, todo, coordinates, error, error_counts,
                   allowed_error, capacity, y, x, scanned, cameraPoints, projectionPoints>>

\* --------------------------------------------------------- vertical passes
\* lines 92-94: loop test, current_error, cv::subtract
RowSubtract ==
    /\ pc = "rows"
    /\ i < frameCount
    /\ \E d \in FrameDiffs(i) : diff' = Subtract(d)
    /\ todo' = Pixels
    /\ start' = Snapshot
    /\ pc' = "rowPass"
    /\ UNCHANGED <<inputs, i, coordinates, temp, error, error_counts, allowed_error,
                   capacity, y, x, scanned, cameraPoints, projectionPoints>>

\* lines 95-103: one invocation of the callback, at pixel pos
RowPixel(pos) ==
    /\ pc = "rowPass"
    /\ pos \in todo
    /\ LET t == NewTemp(temp[pos], diff[pos])
       IN /\ temp' = [temp EXCEPT ![pos] = t]
          /\ error' = [error EXCEPT ![pos] = NewError(@, diff[pos], RowError(i))]
          /\ coordinates' = [coordinates EXCEPT ![2 * pos + 1] = NewCoordinate(@, t)]
    /\ todo' = todo \ {pos}
    /\ UNCHANGED <<inputs, i, diff, start, error_counts, allowed_error,
                   capacity, y, x, scanned, cameraPoints, projectionPoints, pc>>

\* line 92: forEach has returned; i += 2 on a uint16_t
RowAdvance ==
    /\ pc = "rowPass"
    /\ todo = {}
    /\ i' = ToUint16(i + 2)
    /\ start' = Snapshot
    /\ pc' = "rows"
    /\ UNCHANGED <<inputs, diff, todo, coordinates, temp, error, error_counts,
                   allowed_error, capacity, y, x, scanned, cameraPoints,
                   projectionPoints>>

\* --------------------------------------------------------------- histogram
\* lines 110-113
Histogram(err) ==
    [k \in 0 .. ErrorSlots - 1 |->
        IF k < 4 THEN Cardinality({p \in DOMAIN err : err[p] = k}) ELSE 0]

CountErrors ==
    /\ pc = "rows"
    /\ ~(i < frameCount)
    /\ error_counts' = Histogram(error)
    /\ allowed_error' = 0
    /\ pc' = "walk"
    /\ UNCHANGED <<inputs, i, diff, todo, coordinates, temp, error, start,
                   capacity, y, x, scanned, cameraPoints, projectionPoints>>

\* ----------------------------------------------------------- tolerance walk
\* the loop condition with <= for <
WalkGuardInclusive(counts, allowed, minimum) == allowed < 4 /\ counts[allowed] <= minimum

\* the loop condition with the comparison turned round
WalkGuardFlipped(counts, allowed, minimum) == allowed < 4 /\ counts[allowed] > minimum

\* line 115's loop condition
WalkGuard(counts, allowed, minimum) == allowed < 4 /\ counts[allowed] < minimum

\* line 115's increment: allowed_error++, error_counts[allowed_error] += error_counts[allowed_error - 1]
WalkCounts(counts, allowed) ==
    [counts EXCEPT ![allowed + 1] = @ + counts[allowed]]

WalkStep ==
    /\ pc = "walk"
    /\ WalkGuard(error_counts, allowed_error, minPointCount)
    /\ allowed_error' = allowed_error + 1
    /\ error_counts' = WalkCounts(error_counts, allowed_error)
    /\ UNCHANGED <<inputs, i, diff, todo, coordinates, temp, error, start,
                   capacity, y, x, scanned, cameraPoints, projectionPoints, pc>>

\* line 115 run to its end: the tolerance the walk leaves in allowed_error
RECURSIVE Walk(_, _, _)
Walk(counts, allowed, minimum) ==
    IF WalkGuard(counts, allowed, minimum)
    THEN Walk(WalkCounts(counts, allowed), allowed + 1, minimum)
    ELSE allowed

\* lines 117-120
Reserve ==
    /\ pc = "walk"
    /\ ~WalkGuard(error_counts, allowed_error, minPointCount)
    /\ capacity' = IF allowed_error < 4 THEN error_counts[allowed_error] ELSE capacity
    /\ y' = 0
    /\ x' = 0
    /\ scanned' = 0
    /\ pc' = "filter"
    /\ UNCHANGED <<inputs, i, diff, todo, coordinates, temp, error, start,
                   error_counts, allowed_error, cameraPoints, projectionPoints>>

\* ------------------------------------------------------------------ filter
\* the bounds test without the row bound
AdmittedNoRowBound(p_x, p_y, err, allowed) ==
    /\ p_x >= 0
    /\ p_x < projectionSize.width
    /\ err <= allowed

\* line 130
Admitted(p_x, p_y, err, allowed) ==
    /\ p_x >= 0
    /\ p_x < projectionSize.width
    /\ p_y >= 0
    /\ p_y < projectionSize.height
    /\ err <= allowed

\* lines 126-135: one iteration of the inner loop
FilterPixel ==
    /\ pc = "filter"
    /\ y < camera_height
    /\ x < camera_width
    /\ LET p_x == coordinates[2 * scanned]
           p_y == coordinates[2 * scanned + 1]
       IN IF Admitted(p_x, p_y, error[scanned], allowed_error)
          THEN /\ cameraPoints' = Append(cameraPoints, <<x, y>>)
               /\ projectionPoints' = Append(projectionPoints, <<p_x, p_y>>)
          ELSE UNCHANGED <<cameraPoints, projectionPoints>>
    /\ scanned' = scanned + 1
    /\ IF x + 1 < camera_width
       THEN x' = x + 1 /\ UNCHANGED <<y, pc>>
       ELSE /\ x' = 0
            /\ y' = y + 1
            /\ pc' = IF y + 1 < camera_height THEN "filter" ELSE "done"
    /\ UNCHANGED <<inputs, i, diff, todo, coordinates, temp, error, start,
                   error_counts, allowed_error, capacity>>

Next ==
    \/ ColumnSubtract
    \/ \E pos \in Pixels : ColumnPixel(pos)
    \/ ColumnAdvance
    \/ ResetToggle
    \/ RowSubtract
    \/ \E pos \in Pixels : RowPixel(pos)
    \/ RowAdvance
    \/ CountErrors
    \/ WalkStep
    \/ Reserve
    \/ FilterPixel

Spec == Init /\ [][Next]_vars

SpecRendered == InitRendered /\ [][Next]_vars

\* ================================================================== claims
Decoded == pc \in {"walk", "filter", "done"}

XCode(p) == coordinates[2 * p]

YCode(p) == coordinates[2 * p + 1]

InBounds(p) ==
    /\ XCode(p) \in 0 .. projectionSize.width - 1
    /\ YCode(p) \in 0 .. projectionSize.height - 1

\* the pixel a camera point <<x, y>> names
PixelAt(point) == point[2] * camera_width + point[1]

\* pixels whose error level is at most L, among the levels the histogram holds
CountUpTo(L) == Cardinality({p \in Pixels : error[p] <= L /\ error[p] < 4})

Satisfying == {L \in 0 .. 3 : CountUpTo(L) >= minPointCount}

Selected ==
    IF Satisfying = {} THEN 4
    ELSE CHOOSE L \in Satisfying : \A M \in Satisfying : L <= M

\* C1: when the frames render, without noise and most significant bit first,
\* the reflected Gray code of a known coordinate at every pixel, the two decode
\* passes end with x-code = x, y-code = y and error level 0 at every pixel of
\* the mask.
C1_RoundTrip ==
    (rendered /\ Decoded) =>
        \A p \in Pixels :
            mask[p] => /\ XCode(p) = truth[p][1]
                       /\ YCode(p) = truth[p][2]
                       /\ error[p] = 0

C1_Witness ==
    /\ rendered
    /\ pc = "walk"
    /\ \E p \in Pixels : mask[p] /\ truth[p] = <<2, 3>> /\ XCode(p) = 2 /\ YCode(p) = 3

\* C2: the output is exactly the row-major subsequence of the camera pixels
\* whose decoded coordinate is inside the projector and whose error level is
\* at most the selected tolerance; the two sequences have equal length and
\* entry k of each refers to the same pixel.
C2_FilterAdmission ==
    pc = "done" =>
        LET admitted == {p \in Pixels : InBounds(p) /\ error[p] <= allowed_error}
        IN /\ Len(cameraPoints) = Len(projectionPoints)
           /\ Len(cameraPoints) = Cardinality(admitted)
           /\ \A k \in 1 .. Len(cameraPoints) :
                LET p == PixelAt(cameraPoints[k])
                IN /\ cameraPoints[k][1] \in 0 .. camera_width - 1
                   /\ cameraPoints[k][2] \in 0 .. camera_height - 1
                   /\ p \in admitted
                   /\ projectionPoints[k] = <<XCode(p), YCode(p)>>
                   /\ k > 1 => PixelAt(cameraPoints[k - 1]) < p

C2_Witness ==
    /\ pc = "done"
    /\ Len(cameraPoints) >= 1
    /\ \E p \in Pixels : ~InBounds(p) /\ error[p] <= allowed_error

\* C3: the selected tolerance is the least level L in 0..3 such that at least
\* minPointCount pixels have error level <= L, and 4 when there is none; the
\* histogram counts only pixels of error level < 4, and the walk's index stays
\* within the histogram's 5 slots.
C3_ThresholdSelection ==
    /\ Decoded => /\ allowed_error \in 0 .. ErrorSlots - 1
                  /\ DOMAIN error_counts = 0 .. ErrorSlots - 1
    /\ pc = "walk" => error_counts[allowed_error] = CountUpTo(allowed_error)
    /\ pc \in {"filter", "done"} => allowed_error = Selected

C3_Witness ==
    /\ pc = "filter"
    /\ minPointCount = 2
    /\ allowed_error = 2
    /\ CountUpTo(1) = 1

\* C4: for a fixed error buffer the tolerance selected for m2 is at least the
\* one selected for m1 whenever m1 <= m2, and a minPointCount above the number
\* of pixels the histogram holds selects the sentinel 4.
C4_MonotonicTolerance ==
    (pc = "walk" /\ allowed_error = 0) =>
        /\ \A m1, m2 \in 0 .. all_pixels + 1 :
              m1 <= m2 => Walk(error_counts, 0, m1) <= Walk(error_counts, 0, m2)
        /\ \A m \in 0 .. all_pixels + 1 :
              m > CountUpTo(3) => Walk(error_counts, 0, m) = 4

C4_Witness ==
    /\ pc = "walk"
    /\ allowed_error = 0
    /\ Walk(error_counts, 0, 1) < Walk(error_counts, 0, 2)
    /\ Walk(error_counts, 0, 2) < 4
    /\ Walk(error_counts, 0, 3) = 4
    /\ CountUpTo(3) < 3

\* C5: every step of the decode leaves each pixel's stored error level as it
\* was or replaces it by a strictly larger one; the toggle reset between the
\* two axes does not reset it.
C5_ErrorNeverDecreases ==
    [][\A p \in Pixels : error'[p] >= error[p]]_vars

C5_Witness ==
    /\ pc = "rowPass"
    /\ \E p \in Pixels : start.error[p] > 0 /\ error[p] > start.error[p]

\* C6: when no level in 0..3 has a cumulative count >= minPointCount, the
\* call returns fewer than minPointCount pairs (there is no failure report).
C6_InsufficientSurfaced ==
    (pc = "done" /\ allowed_error = 4) => Len(cameraPoints) < minPointCount

\* C7: inside one bit-plane pass every order of the per-pixel callbacks gives
\* the same buffers: a visited pixel holds what its own slots and its own
\* difference determine, an unvisited pixel holds what it held when the pass
\* began.
C7_PassDeterministic ==
    pc \in {"columnPass", "rowPass"} =>
        LET axis == IF pc = "columnPass" THEN 0 ELSE 1
            weight == IF pc = "columnPass" THEN ColumnError(i) ELSE RowError(i)
        IN \A p \in Pixels :
            LET t == IF p \in todo THEN start.temp[p]
                     ELSE NewTemp(start.temp[p], diff[p])
            IN /\ temp[p] = t
               /\ error[p] = IF p \in todo THEN start.error[p]
                             ELSE NewError(start.error[p], diff[p], weight)
               /\ coordinates[2 * p + axis] =
                     IF p \in todo THEN start.coordinates[2 * p + axis]
                     ELSE NewCoordinate(start.coordinates[2 * p + axis], t)
               /\ coordinates[2 * p + 1 - axis] = start.coordinates[2 * p + 1 - axis]

C7_Witness ==
    /\ pc = "columnPass"
    /\ i >= 2
    /\ todo = {0}
    /\ all_pixels >= 2
    /\ temp[0] # temp[1]
    /\ diff[0] # diff[1]

\* C8: within the horizontal passes and within the vertical passes alike the
\* weight of a bit-plane is strictly smaller than that of the plane before it.
C8_WeightsFollowSignificance ==
    /\ (pc = "columnPass" /\ i >= 2) => ColumnError(i - 2) > ColumnError(i)
    /\ (pc = "rowPass" /\ i >= column_frame_count + 2) => RowError(i - 2) > RowError(i)

\* C9: a camera pixel whose mask value is false never appears in the output.
C9_MaskedExcluded ==
    \A k \in 1 .. Len(cameraPoints) : mask[PixelAt(cameraPoints[k])]

\* C10: when the selected tolerance is in 0..3, the output holds at least
\* minPointCount pairs and at most the reserved number of slots.
C10_EnoughPoints ==
    (pc = "done" /\ allowed_error < 4) =>
        /\ Len(cameraPoints) >= minPointCount
        /\ Len(cameraPoints) <= capacity
====
